---- MODULE Spec2Model ----
(***************************************************************************)
(* The pulse-propagation simulator of day20 (src/day20/src/main.rs) and    *)
(* the line-processing pipeline of the processor crate                     *)
(* (src/processor/src/lib.rs) as a state machine.                          *)
(*                                                                         *)
(* Text is modelled as sequences of one-character strings, so that         *)
(* read_word, substring and the prefix match of parse_line are computed    *)
(* as the code computes them.  A HashMap is a function whose DOMAIN is its *)
(* key set; where the code iterates a HashMap the iteration order is a     *)
(* nondeterministic choice of the action.                                  *)
(***************************************************************************)
EXTENDS Integers, Sequences, FiniteSets, TLC

\* ------------------------------------------------------------------------
\* Bounds of the exploration (not program constants)
\* ------------------------------------------------------------------------

\* longest input file, in lines
MaxLines == 4

\* button presses explored by Spec (the program itself presses NUM_ITERATIONS times)
MaxPresses == 2

\* pulses delivered within one press before the exploration of that press is cut
MaxDeliveries == 16

\* presses of perform_processing_2 followed
MaxPressesB == 5

\* calls of new_line on one CellsBuilder
MaxBuilderLines == 2

\* calls of add_cell on one CellsBuilder
MaxCells == 3

\* calls of build_cells on one CellsBuilder
MaxBuilds == 2

\* ------------------------------------------------------------------------
\* Program constants
\* ------------------------------------------------------------------------

NUM_ITERATIONS == 1000

DELIMITERS == {" ", "-", ">", ","}

button == <<"b", "u", "t", "t", "o", "n">>

broadcaster == <<"b", "r", "o", "a", "d", "c", "a", "s", "t", "e", "r">>

\* enum Pulse
High == "High"

Low == "Low"

NotSeen == "NotSeen"

Pulse == {High, Low, NotSeen}

\* ------------------------------------------------------------------------
\* HashMap helpers
\* ------------------------------------------------------------------------

\* HashMap::default()
EmptyMap == <<>>

\* HashMap::insert: adds the key or overwrites its value
insert(map, key, value) ==
    [k \in (DOMAIN map) \cup {key} |-> IF k = key THEN value ELSE map[k]]

\* HashMap::contains_key
contains_key(map, key) == key \in DOMAIN map

\* every order in which a set of keys can be iterated
Orders(S) ==
    {o \in [1..Cardinality(S) -> S] : \A i, j \in 1..Cardinality(S) : o[i] = o[j] => i = j}

\* ------------------------------------------------------------------------
\* processor::read_word
\* ------------------------------------------------------------------------

RECURSIVE read_word_loop(_, _)
\* the while loop of read_word: [consumed, chars left after the call]
read_word_loop(chars, consumed) ==
    IF chars = <<>>
    THEN [consumed |-> consumed, chars |-> <<>>]
    ELSE IF Head(chars) \in DELIMITERS
         THEN IF consumed = <<>>
              THEN read_word_loop(Tail(chars), consumed)
              ELSE [consumed |-> consumed, chars |-> Tail(chars)]
         ELSE read_word_loop(Tail(chars), Append(consumed, Head(chars)))

\* consumed = <<>> stands for None
read_word(chars) == read_word_loop(chars, <<>>)

\* ------------------------------------------------------------------------
\* day20::parse_line
\* ------------------------------------------------------------------------

RECURSIVE read_outputs(_, _)
\* while let Some((output_name, _)) = read_word(..) { outputs.push(output_name) }
read_outputs(chars, outputs) ==
    LET w == read_word(chars)
    IN  IF w.consumed = <<>>
        THEN outputs
        ELSE read_outputs(w.chars, Append(outputs, w.consumed))

\* str.substring(start, end), character indices from 0, end exclusive
substring(s, start, end) == SubSeq(s, start + 1, end)

Broadcast(outputs) == [kind |-> "Broadcast", inputs |-> EmptyMap, outputs |-> outputs]

FlipFlop(outputs) ==
    [kind |-> "FlipFlop", on |-> FALSE, inputs |-> EmptyMap, outputs |-> outputs]

Conjunction(outputs) == [kind |-> "Conjunction", inputs |-> EmptyMap, outputs |-> outputs]

\* the result of parse_line: Ok(state) or Err
\* parse_line without the comparison with "broadcaster" behind the prefix b
parse_line_as_lenient(st, line) ==
    LET first == read_word(line)
        module_type_and_name == first.consumed
        outputs == read_outputs(first.chars, <<>>)
        possible_name == substring(module_type_and_name, 1, Len(module_type_and_name))
        prefix == substring(module_type_and_name, 0, 1)
    IN  IF module_type_and_name = <<>>
        THEN [ok |-> TRUE, state |-> st]
        ELSE IF prefix = <<"b">>
        THEN [ok |-> TRUE, state |-> insert(st, broadcaster, Broadcast(outputs))]
        ELSE IF prefix = <<"%">>
        THEN [ok |-> TRUE, state |-> insert(st, possible_name, FlipFlop(outputs))]
        ELSE IF prefix = <<"&">>
        THEN [ok |-> TRUE, state |-> insert(st, possible_name, Conjunction(outputs))]
        ELSE [ok |-> FALSE, state |-> st]

parse_line(st, line) ==
    LET first == read_word(line)
        module_type_and_name == first.consumed
        outputs == read_outputs(first.chars, <<>>)
        possible_name == substring(module_type_and_name, 1, Len(module_type_and_name))
        prefix == substring(module_type_and_name, 0, 1)
    IN  IF module_type_and_name = <<>>
        THEN [ok |-> TRUE, state |-> st]
        ELSE IF prefix = <<"b">>
        THEN IF module_type_and_name # broadcaster
             THEN [ok |-> FALSE, state |-> st]
             ELSE [ok |-> TRUE, state |-> insert(st, broadcaster, Broadcast(outputs))]
        ELSE IF prefix = <<"%">>
        THEN [ok |-> TRUE, state |-> insert(st, possible_name, FlipFlop(outputs))]
        ELSE IF prefix = <<"&">>
        THEN [ok |-> TRUE, state |-> insert(st, possible_name, Conjunction(outputs))]
        ELSE [ok |-> FALSE, state |-> st]

\* ------------------------------------------------------------------------
\* day20::finalise_state
\* ------------------------------------------------------------------------

get_outputs(module) == module.outputs

RECURSIVE source_destinations(_, _)
\* state.iter_mut().flat_map(..): the (source, destination) pairs, module by module
\* in the map's iteration order, each module's outputs in their Vec order
source_destinations(st, order) ==
    IF order = <<>>
    THEN <<>>
    ELSE LET name == Head(order)
             outputs == get_outputs(st[name])
         IN  [i \in 1..Len(outputs) |-> <<name, outputs[i]>>]
                 \o source_destinations(st, Tail(order))

\* the Conjunction arm primed like the other two arms
primed_level_as_not_seen(kind) == NotSeen

\* the value finalise_state primes an input entry with, by the destination's kind
primed_level(kind) == IF kind = "Conjunction" THEN Low ELSE NotSeen

\* the body of the for_each closure of finalise_state
prime_input(st, source, destination) ==
    IF ~contains_key(st, destination)
    THEN st
    ELSE [st EXCEPT ![destination].inputs =
              insert(@, source, primed_level(st[destination].kind))]

RECURSIVE prime_all(_, _)
prime_all(st, pairs) ==
    IF pairs = <<>>
    THEN st
    ELSE prime_all(prime_input(st, pairs[1][1], pairs[1][2]), Tail(pairs))

finalise_state(st, order) == prime_all(st, source_destinations(st, order))

\* ------------------------------------------------------------------------
\* day20::push_button, the pure parts
\* ------------------------------------------------------------------------

\* a depth-first scheduler: the new pulse goes to the front
push_back_as_push_front(queue, item) == <<item>> \o queue

\* VecDeque::push_back
push_back(queue, item) == Append(queue, item)

\* VecDeque::pop_front, the element taken
pop_front_item(queue) == Head(queue)

\* front() read in place of pop_front(): the element stays queued
pop_front_rest_as_peek(queue) == queue

\* VecDeque::pop_front, the queue left
pop_front_rest(queue) == Tail(queue)

\* the pulses sent put in front of the queue
push_all_as_prepending(queue, items) == items \o queue

RECURSIVE push_all(_, _)
\* items.for_each(|item| queue.push_back(item))
push_all(queue, items) ==
    IF items = <<>>
    THEN queue
    ELSE push_all(push_back(queue, Head(items)), Tail(items))

\* the Low arm without its increment
count_low_as_uncounted(pulse, count) == count

\* the match on the pulse at the top of the loop: the new low_pulse_count
count_low(pulse, count) == IF pulse = Low THEN count + 1 ELSE count

\* the High arm without its increment
count_high_as_uncounted(pulse, count) == count

\* the match on the pulse at the top of the loop: the new high_pulse_count
count_high(pulse, count) == IF pulse = High THEN count + 1 ELSE count

\* the pulses one module sends: (destination, pulse, output) for every output in order
\* the pulses pushed from the last output to the first
sent_pulses_as_reversed(destination, pulse, outputs) ==
    [i \in 1..Len(outputs) |-> <<destination, pulse, outputs[Len(outputs) + 1 - i]>>]

sent_pulses(destination, pulse, outputs) ==
    [i \in 1..Len(outputs) |-> <<destination, pulse, outputs[i]>>]

\* the broadcaster repeating the button's Low whatever it received
broadcast_receive_as_low(module, source, pulse) ==
    [module |-> [module EXCEPT !.inputs = insert(@, source, pulse)],
     emit   |-> <<Low>>]

\* Module::Broadcast arm: record the input, same pulse to all outputs
broadcast_receive(module, source, pulse) ==
    [module |-> [module EXCEPT !.inputs = insert(@, source, pulse)],
     emit   |-> <<pulse>>]

\* the two levels swapped
next_pulse_as_swapped(on) == IF on THEN Low ELSE High

\* let next_pulse = if *on { Pulse::High } else { Pulse::Low }
next_pulse(on) == IF on THEN High ELSE Low

\* the flip-flop without its matches!(pulse, Pulse::Low) test
flipflop_receive_as_any_pulse(module, source, pulse) ==
    LET recorded == [module EXCEPT !.inputs = insert(@, source, pulse)]
        flipped  == [recorded EXCEPT !.on = ~@]
    IN  [module |-> flipped, emit |-> <<IF flipped.on THEN High ELSE Low>>]

\* a flip-flop that a Low switches on and never off
flipflop_receive_as_latching(module, source, pulse) ==
    LET recorded == [module EXCEPT !.inputs = insert(@, source, pulse)]
        latched  == [recorded EXCEPT !.on = TRUE]
    IN  IF pulse = Low
        THEN [module |-> latched, emit |-> <<next_pulse(latched.on)>>]
        ELSE [module |-> recorded, emit |-> <<>>]

\* Module::FlipFlop arm: record the input; on Low flip and send, on High nothing
flipflop_receive(module, source, pulse) ==
    LET recorded == [module EXCEPT !.inputs = insert(@, source, pulse)]
        flipped  == [recorded EXCEPT !.on = ~@]
    IN  IF pulse = Low
        THEN [module |-> flipped, emit |-> <<next_pulse(flipped.on)>>]
        ELSE [module |-> recorded, emit |-> <<>>]

RECURSIVE fold_same_as_latest(_, _, _)
\* a fold whose accumulator follows the value visited last
fold_same_as_latest(inputs, order, acc) ==
    IF order = <<>>
    THEN acc
    ELSE fold_same_as_latest(inputs, Tail(order), inputs[Head(order)])

RECURSIVE fold_same(_, _, _)
\* the fold closure over inputs.values(): acc stays Some(p) while every value is p
fold_same(inputs, order, acc) ==
    IF order = <<>>
    THEN acc
    ELSE fold_same(inputs, Tail(order),
                   IF acc # "None" /\ acc = inputs[Head(order)] THEN acc ELSE "None")

\* inputs.values().fold(inputs.values().next(), ..): Some(p) is p, None is "None"
all_same(inputs, order) ==
    IF order = <<>>
    THEN "None"
    ELSE fold_same(inputs, order, inputs[Head(order)])

\* Low whenever the memory agrees, on either level
conjunction_pulse_as_any_same(same) == IF same # "None" THEN Low ELSE High

\* match all_same { Some(Pulse::High) => Pulse::Low, _ => Pulse::High }
conjunction_pulse(same) == IF same = High THEN Low ELSE High

\* Module::Conjunction arm: update the memory, then send by the memory's content;
\* order is the iteration order of the memory
conjunction_receive(module, source, pulse, order) ==
    LET updated == [module EXCEPT !.inputs = insert(@, source, pulse)]
    IN  [module |-> updated,
         emit   |-> <<conjunction_pulse(all_same(updated.inputs, order))>>]

\* a transition that also empties the recipient's output list
receive_as_unwiring(module, source, pulse, order) ==
    LET r == IF module.kind = "Broadcast"
             THEN broadcast_receive(module, source, pulse)
             ELSE IF module.kind = "FlipFlop"
             THEN flipflop_receive(module, source, pulse)
             ELSE conjunction_receive(module, source, pulse, order)
    IN  [module |-> [r.module EXCEPT !.outputs = <<>>], emit |-> r.emit]

\* the match on the module inside and_modify
receive(module, source, pulse, order) ==
    IF module.kind = "Broadcast"
    THEN broadcast_receive(module, source, pulse)
    ELSE IF module.kind = "FlipFlop"
    THEN flipflop_receive(module, source, pulse)
    ELSE conjunction_receive(module, source, pulse, order)

\* the orders in which the module's input map can be iterated after the insert
\* (only the Conjunction arm iterates it)
iteration_orders(module, source) ==
    IF module.kind = "Conjunction"
    THEN Orders((DOMAIN module.inputs) \cup {source})
    ELSE {<<>>}

\* the two totals added
pp1_result_as_sum(low, high) == low + high

\* Ok(low_pulse_count * high_pulse_count)
pp1_result(low, high) == low * high

\* ------------------------------------------------------------------------
\* day20::perform_processing_1 and perform_processing_2, the closures and the lcm
\* ------------------------------------------------------------------------

mp == <<"m", "p">>

qt == <<"q", "t">>

qb == <<"q", "b">>

ng == <<"n", "g">>

\* matches!(destination.as_str(), "mp" | "qt" | "qb" | "ng")
WATCHED == {mp, qt, qb, ng}

\* |acc, _, _| acc
observe_1(value, pulse, destination) == value

\* the closure without its test of acc.contains_key(destination)
observe_2_as_overwriting(value, pulse, destination) ==
    LET num == value[1]
        acc == value[2]
    IN  IF pulse = Low /\ destination \in WATCHED
        THEN <<num, insert(acc, destination, num)>>
        ELSE <<num, acc>>

\* the closure of perform_processing_2 on (num, acc)
observe_2(value, pulse, destination) ==
    LET num == value[1]
        acc == value[2]
    IN  IF pulse = Low /\ destination \in WATCHED /\ ~contains_key(acc, destination)
        THEN <<num, insert(acc, destination, num)>>
        ELSE <<num, acc>>

\* a push_button that never calls its observer
observation_function_as_uncalled(p, value, pulse, destination) == value

\* observation_function(observation_value, &pulse, &destination), by the caller
observation_function(p, value, pulse, destination) ==
    IF p = 1
    THEN observe_1(value, pulse, destination)
    ELSE observe_2(value, pulse, destination)

RECURSIVE gcd(_, _)
\* num::Integer::gcd
gcd(a, b) == IF b = 0 THEN a ELSE gcd(b, a % b)

\* the product in place of the least common multiple
lcm_as_product(a, b) == a * b

\* num::Integer::lcm
lcm(a, b) == IF a = 0 /\ b = 0 THEN 0 ELSE a * (b \div gcd(a, b))

\* ------------------------------------------------------------------------
\* day20b::push_button, the earlier version without an observer
\* ------------------------------------------------------------------------

RECURSIVE day20b_fold(_, _, _)
\* day20b: the fold closure over inputs.values()
day20b_fold(inputs, order, acc) ==
    IF order = <<>>
    THEN acc
    ELSE day20b_fold(inputs, Tail(order),
                     IF acc # "None" /\ acc = inputs[Head(order)] THEN acc ELSE "None")

\* day20b: the match on the module inside and_modify; the module left and the level
\* sent to every output, if any
day20b_arm(module, source, pulse, order) ==
    LET recorded == [module EXCEPT !.inputs =
                         [k \in (DOMAIN @) \cup {source} |-> IF k = source THEN pulse ELSE @[k]]]
    IN  IF module.kind = "Broadcast"
        THEN [module |-> recorded, emit |-> <<pulse>>]
        ELSE IF module.kind = "FlipFlop"
        THEN IF pulse = Low
             THEN [module |-> [recorded EXCEPT !.on = ~@],
                   emit   |-> <<IF ~recorded.on THEN High ELSE Low>>]
             ELSE [module |-> recorded, emit |-> <<>>]
        ELSE LET same == IF order = <<>>
                         THEN "None"
                         ELSE day20b_fold(recorded.inputs, order,
                                          recorded.inputs[Head(order)])
             IN  [module |-> recorded,
                  emit   |-> <<IF same = High THEN Low ELSE High>>]

\* day20b: one turn of the while-let loop on the module map, the queue and the two
\* counters
day20b_turn(st, queue, low, high, order) ==
    LET source      == Head(queue)[1]
        pulse       == Head(queue)[2]
        destination == Head(queue)[3]
        counted_low  == IF pulse = Low THEN low + 1 ELSE low
        counted_high == IF pulse = High THEN high + 1 ELSE high
    IN  IF destination \notin DOMAIN st
        THEN [state |-> st, queue |-> Tail(queue),
              low |-> counted_low, high |-> counted_high]
        ELSE LET r == day20b_arm(st[destination], source, pulse, order)
                 outputs == r.module.outputs
                 sent == IF r.emit = <<>>
                         THEN <<>>
                         ELSE [i \in 1..Len(outputs) |->
                                  <<destination, r.emit[1], outputs[i]>>]
             IN  [state |-> [st EXCEPT ![destination] = r.module],
                  queue |-> Tail(queue) \o sent,
                  low |-> counted_low, high |-> counted_high]

\* day20b: the queue and the counters at the head of the loop
day20b_start ==
    [queue |-> <<(<<button, Low, broadcaster>>)>>, low |-> 0, high |-> 0]

\* ------------------------------------------------------------------------
\* processor::Cells and processor::CellsBuilder
\* ------------------------------------------------------------------------

\* Vec::last
Last(seq) == seq[Len(seq)]

\* the cell values added, and the cell values given as default
CellValues == {"a", "b"}

DefaultValues == {"a", "?"}

\* x < self.side_lengths.0 && y < self.side_lengths.1, on coordinates that are usize
in_bounds(cells, x, y) == x < cells.side_lengths[1] /\ y < cells.side_lengths[2]

\* y * self.side_lengths.0 + x
calculate_index(cells, x, y) == y * cells.side_lengths[1] + x

\* Cells::get: <<cell>> is Ok(cell), <<>> an Err
cells_get(cells, x, y) ==
    IF ~in_bounds(cells, x, y)
    THEN <<>>
    ELSE LET index == calculate_index(cells, x, y)
         IN  IF index < Len(cells.contents)
             THEN <<cells.contents[index + 1]>>
             ELSE <<>>

RECURSIVE pad(_, _, _)
\* while acc.len() < expected_number_after_this_line { acc.push(default_value.clone()) }
pad(acc, expected, default_value) ==
    IF Len(acc) < expected
    THEN pad(Append(acc, default_value), expected, default_value)
    ELSE acc

RECURSIVE fold_lines(_, _, _, _, _)
\* the fold of build_cells over lines.into_iter().enumerate(), from line y on
fold_lines(acc, y, rest, width, default_value) ==
    IF rest = <<>>
    THEN acc
    ELSE LET start_index == y * width
             drained == acc \o Head(rest)
         IN  fold_lines(pad(drained, start_index + width, default_value),
                        y + 1, Tail(rest), width, default_value)

\* the Cells that build_cells returns past its two checks
build(taken, width, default_value) ==
    [contents     |-> fold_lines(<<>>, 0, taken, width, default_value),
     side_lengths |-> <<width, Len(taken)>>]

\* ------------------------------------------------------------------------
\* Input files explored
\* ------------------------------------------------------------------------

Arrow == <<" ", "-", ">", " ">>

Comma == <<",", " ">>

\* broadcaster -> a, b
LineBroadcaster == broadcaster \o Arrow \o <<"a">> \o Comma \o <<"b">>

\* %a -> c
LineFlipA == <<"%", "a">> \o Arrow \o <<"c">>

\* %a -> a, a
LineFlipASelf == <<"%", "a">> \o Arrow \o <<"a">> \o Comma \o <<"a">>

\* %b -> c
LineFlipB == <<"%", "b">> \o Arrow \o <<"c">>

\* &b -> b
LineConjBSelf == <<"&", "b">> \o Arrow \o <<"b">>

\* &c -> x
LineConjC == <<"&", "c">> \o Arrow \o <<"x">>

\* &c -> broadcaster
LineConjCBack == <<"&", "c">> \o Arrow \o broadcaster

\* &broadcaster -> a
LineConjBroadcaster == <<"&">> \o broadcaster \o Arrow \o <<"a">>

\* an empty line
LineEmpty == <<>>

\* bx -> a
LineBad == <<"b", "x">> \o Arrow \o <<"a">>

\* c -> a
LineUnprefixed == <<"c">> \o Arrow \o <<"a">>

LineCatalogue ==
    {LineBroadcaster, LineFlipA, LineFlipASelf, LineFlipB, LineConjBSelf,
     LineConjC, LineConjCBack, LineConjBroadcaster, LineEmpty, LineBad, LineUnprefixed}

\* every file of at most MaxLines lines of the catalogue
InputFiles == UNION {[1..n -> LineCatalogue] : n \in 0..MaxLines}

RECURSIVE JoinNames(_)
\* names as they stand in a line: separated by ", "
JoinNames(names) ==
    IF Len(names) = 1 THEN names[1] ELSE names[1] \o Comma \o JoinNames(Tail(names))

\* <word> -> <name>, <name>, ...
Line(word, names) == word \o Arrow \o JoinNames(names)

\* the first example of the puzzle: three flip-flops and an inverter behind the
\* broadcaster
ReferenceCircuit ==
    << Line(broadcaster, << <<"a">>, <<"b">>, <<"c">> >>),
       Line(<<"%", "a">>, << <<"b">> >>),
       Line(<<"%", "b">>, << <<"c">> >>),
       Line(<<"%", "c">>, << <<"i", "n", "v">> >>),
       Line(<<"&", "i", "n", "v">>, << <<"a">> >>) >>

\* the second example of the puzzle: an inverter and a conjunction fed by two
\* flip-flops, ending in the undefined module output
LargerReferenceCircuit ==
    << Line(broadcaster, << <<"a">> >>),
       Line(<<"%", "a">>, << <<"i", "n", "v">>, <<"c", "o", "n">> >>),
       Line(<<"&", "i", "n", "v">>, << <<"b">> >>),
       Line(<<"%", "b">>, << <<"c", "o", "n">> >>),
       Line(<<"&", "c", "o", "n">>, << <<"o", "u", "t", "p", "u", "t">> >>) >>

\* a ripple counter of four flip-flops ending in a sink
CounterCircuit ==
    << Line(broadcaster, << <<"a">> >>),
       Line(<<"%", "a">>, << <<"b">> >>),
       Line(<<"%", "b">>, << <<"c">> >>),
       Line(<<"%", "c">>, << <<"d">> >>),
       Line(<<"%", "d">>, << <<"x">> >>) >>

rx == <<"r", "x">>

dr == <<"d", "r">>

\* the four watched names as sinks behind flip-flops and a conjunction, with no
\* module rx anywhere
CadenceCircuit ==
    << Line(broadcaster, << <<"a">>, mp >>),
       Line(<<"%", "a">>, << <<"b">>, <<"c">>, qt >>),
       Line(<<"%", "b">>, << <<"c">>, qb >>),
       Line(<<"&", "c">>, << ng >>) >>

\* rx behind the conjunction dr, whose one predecessor mp is a conjunction of two
\* flip-flops
TwoInputCircuit ==
    << Line(broadcaster, << <<"a">> >>),
       Line(<<"%", "a">>, << mp >>),
       Line(<<"%", "b">>, << mp >>),
       Line(<<"&">> \o mp, << dr >>),
       Line(<<"&">> \o dr, << rx >>) >>

\* the shape of the puzzle input: rx behind the conjunction dr, fed by four
\* inverters behind one flip-flop
GatekeeperCircuit ==
    << Line(broadcaster, << <<"a">> >>),
       Line(<<"%", "a">>, << mp, qt, qb, ng >>),
       Line(<<"&">> \o mp, << dr >>),
       Line(<<"&">> \o qt, << dr >>),
       Line(<<"&">> \o qb, << dr >>),
       Line(<<"&">> \o ng, << dr >>),
       Line(<<"&">> \o dr, << rx >>) >>

\* the files on which perform_processing_2 is followed
PartBFiles == {CadenceCircuit, TwoInputCircuit, GatekeeperCircuit}

\* the files followed through all NUM_ITERATIONS presses
PartAFiles == {ReferenceCircuit, LargerReferenceCircuit, CounterCircuit}

\* ------------------------------------------------------------------------
\* State
\* ------------------------------------------------------------------------

VARIABLES
    lines,                  \* process: the lines of the file not yet folded
    state,                  \* the HashMap<String, Module>
    pc,                     \* "parse", "process", "press", "done", "error"
    iteration,              \* perform_processing_1: presses completed
    pp1_low_pulse_count,    \* perform_processing_1: low_pulse_count
    pp1_high_pulse_count,   \* perform_processing_1: high_pulse_count
    result,                 \* <<>> until process returns Ok(r), then <<r>>
    pulse_queue,            \* push_button: the VecDeque of (source, pulse, destination)
    low_pulse_count,        \* push_button: low_pulse_count
    high_pulse_count,       \* push_button: high_pulse_count
    enqueued,               \* history: the pulses pushed in this press, in push order
    delivered,              \* history: the pulses popped in this press, in pop order
    pulse_ids,              \* history: for each queued pulse, its position in enqueued
    seen,                   \* history: the (state, queue) pairs this press has been in
    presses,                \* history: calls of push_button in this run
    run_low,                \* history: Low pulses popped in this run
    run_high,               \* history: High pulses popped in this run
    part,                   \* 1: process runs perform_processing_1, 2: perform_processing_2
    observation_value,      \* push_button: observation_value
    num_presses,            \* perform_processing_2: num_presses
    interesting_nums,       \* perform_processing_2: interesting_nums
    finalise_calls,         \* history: calls of finalise_state in this run
    last_low,               \* history: per flip-flop, its last Low delivery
    low_seen,               \* history: per destination, the press of its first Low
    high_sent,              \* history: per module, the press in which it first sent High
    builder_lines,          \* CellsBuilder: lines
    max_width,              \* CellsBuilder: max_width
    built,                  \* the last return of build_cells, <<>> before the first
    taken,                  \* history: the lines and default of the last build_cells
    builds,                 \* history: calls of build_cells on this builder
    new_lines,              \* history: calls of new_line on this builder
    cells_added             \* history: calls of add_cell on this builder

vars ==
    <<lines, state, pc, iteration, pp1_low_pulse_count, pp1_high_pulse_count, result,
      pulse_queue, low_pulse_count, high_pulse_count,
      enqueued, delivered, pulse_ids, seen, presses, run_low, run_high,
      part, observation_value, num_presses, interesting_nums,
      finalise_calls, last_low, low_seen, high_sent,
      builder_lines, max_width, built, taken, builds, new_lines, cells_added>>

press_vars ==
    <<pulse_queue, low_pulse_count, high_pulse_count, observation_value,
      enqueued, delivered, pulse_ids, seen>>

pp2_vars == <<num_presses, interesting_nums>>

builder_vars ==
    <<builder_lines, max_width, built, taken, builds, new_lines, cells_added>>

\* what a run of process on day20 never changes
fixed_vars == <<part, builder_vars>>

\* the history that only a delivery extends
delivery_history == <<last_low, low_seen, high_sent>>

run_vars == <<presses, run_low, run_high>>

pp1_vars == <<iteration, pp1_low_pulse_count, pp1_high_pulse_count, result>>

\* CellsBuilder::new_empty, with nothing built yet
new_empty ==
    /\ builder_lines = <<>>
    /\ max_width = 0
    /\ built = <<>>
    /\ taken = <<>>
    /\ builds = 0
    /\ new_lines = 0
    /\ cells_added = 0

\* the state at the call of process(file, (output, HashMap::default()), ..) with
\* perform_processing_1 (p = 1) or perform_processing_2 (p = 2)
InitFor(files, p) ==
    /\ new_empty
    /\ lines \in files
    /\ part = p
    /\ observation_value = 0
    /\ num_presses = 0
    /\ interesting_nums = EmptyMap
    /\ finalise_calls = 0
    /\ last_low = EmptyMap
    /\ low_seen = EmptyMap
    /\ high_sent = EmptyMap
    /\ state = EmptyMap
    /\ pc = "parse"
    /\ iteration = 0
    /\ pp1_low_pulse_count = 0
    /\ pp1_high_pulse_count = 0
    /\ result = <<>>
    /\ pulse_queue = <<>>
    /\ low_pulse_count = 0
    /\ high_pulse_count = 0
    /\ enqueued = <<>>
    /\ delivered = <<>>
    /\ pulse_ids = <<>>
    /\ seen = {}
    /\ presses = 0
    /\ run_low = 0
    /\ run_high = 0

\* the first call of process in main
InitWith(files) == InitFor(files, 1)

Init == InitWith(InputFiles)

\* ------------------------------------------------------------------------
\* processor::process
\* ------------------------------------------------------------------------

\* one step of try_fold(initial_state, parse_line); an Err ends process
fold_line ==
    /\ pc = "parse"
    /\ lines # <<>>
    /\ LET r == parse_line(state, Head(lines))
       IN  /\ state' = r.state
           /\ pc' = IF r.ok THEN "parse" ELSE "error"
    /\ lines' = Tail(lines)
    /\ UNCHANGED <<pp1_vars, pp2_vars, press_vars, run_vars, fixed_vars, finalise_calls,
                   delivery_history>>

\* let finalised_state = finalise_state(loaded_state)?
\* finalise_state called without waiting for the last line
call_finalise_state_as_early ==
    /\ pc = "parse"
    /\ \E order \in Orders(DOMAIN state) : state' = finalise_state(state, order)
    /\ pc' = "process"
    /\ finalise_calls' = finalise_calls + 1
    /\ UNCHANGED <<lines, pp1_vars, pp2_vars, press_vars, run_vars, fixed_vars,
                   delivery_history>>

call_finalise_state ==
    /\ pc = "parse"
    /\ lines = <<>>
    /\ \E order \in Orders(DOMAIN state) : state' = finalise_state(state, order)
    /\ pc' = "process"
    /\ finalise_calls' = finalise_calls + 1
    /\ UNCHANGED <<lines, pp1_vars, pp2_vars, press_vars, run_vars, fixed_vars,
                   delivery_history>>

\* ------------------------------------------------------------------------
\* day20::perform_processing_1 and push_button
\* ------------------------------------------------------------------------

\* a press that queues the button's pulse twice
call_push_button_as_double(horizon) ==
    /\ pc = "process"
    /\ part = 1
    /\ observation_value' = 0
    /\ iteration < NUM_ITERATIONS
    /\ iteration < horizon
    /\ pulse_queue' = << <<button, Low, broadcaster>>, <<button, Low, broadcaster>> >>
    /\ low_pulse_count' = 0
    /\ high_pulse_count' = 0
    /\ pc' = "press"
    /\ enqueued' = << <<button, Low, broadcaster>>, <<button, Low, broadcaster>> >>
    /\ delivered' = <<>>
    /\ pulse_ids' = <<1, 2>>
    /\ seen' = {}
    /\ presses' = presses + 1
    /\ UNCHANGED <<lines, state, pp1_vars, pp2_vars, run_low, run_high, fixed_vars,
                   finalise_calls, delivery_history>>

\* the for_each closure calls push_button: counters zeroed, the button pulse queued.
\* horizon is how many presses the exploration follows.
call_push_button(horizon) ==
    /\ pc = "process"
    /\ part = 1
    /\ observation_value' = 0
    /\ iteration < NUM_ITERATIONS
    /\ iteration < horizon
    /\ pulse_queue' = push_back(<<>>, <<button, Low, broadcaster>>)
    /\ low_pulse_count' = 0
    /\ high_pulse_count' = 0
    /\ pc' = "press"
    /\ enqueued' = <<(<<button, Low, broadcaster>>)>>
    /\ delivered' = <<>>
    /\ pulse_ids' = push_back(<<>>, 1)
    /\ seen' = {}
    /\ presses' = presses + 1
    /\ UNCHANGED <<lines, state, pp1_vars, pp2_vars, run_low, run_high, fixed_vars,
                   finalise_calls, delivery_history>>

\* one turn of while let Some((source, pulse, destination)) = pulse_queue.pop_front():
\* count the pulse, skip an unknown destination, else let the module receive it and
\* push what it sends.  A press is followed for at most MaxDeliveries turns.
deliver ==
    /\ pc = "press"
    /\ pulse_queue # <<>>
    /\ Len(delivered) < MaxDeliveries
    /\ LET front       == pop_front_item(pulse_queue)
           source      == front[1]
           pulse       == front[2]
           destination == front[3]
       IN  /\ low_pulse_count' = count_low(pulse, low_pulse_count)
           /\ high_pulse_count' = count_high(pulse, high_pulse_count)
           /\ observation_value' =
                  observation_function(part, observation_value, pulse, destination)
           /\ low_seen' = IF pulse = Low /\ destination \notin DOMAIN low_seen
                          THEN insert(low_seen, destination, presses)
                          ELSE low_seen
           /\ delivered' = Append(delivered, front)
           /\ run_low' = IF pulse = Low THEN run_low + 1 ELSE run_low
           /\ run_high' = IF pulse = High THEN run_high + 1 ELSE run_high
           /\ seen' = seen \cup {<<state, pulse_queue>>}
           /\ IF ~contains_key(state, destination)
              THEN /\ pulse_queue' = pop_front_rest(pulse_queue)
                   /\ pulse_ids' = pop_front_rest(pulse_ids)
                   /\ UNCHANGED <<state, enqueued, last_low, high_sent>>
              ELSE \E order \in iteration_orders(state[destination], source) :
                      LET r    == receive(state[destination], source, pulse, order)
                          sent == IF r.emit = <<>>
                                  THEN <<>>
                                  ELSE sent_pulses(destination, r.emit[1], r.module.outputs)
                      IN  /\ state' = [state EXCEPT ![destination] = r.module]
                          /\ pulse_queue' = push_all(pop_front_rest(pulse_queue), sent)
                          /\ pulse_ids' = push_all(pop_front_rest(pulse_ids),
                                                   [i \in 1..Len(sent) |-> Len(enqueued) + i])
                          /\ enqueued' = enqueued \o sent
                          /\ last_low' =
                                 IF state[destination].kind = "FlipFlop" /\ pulse = Low
                                 THEN insert(last_low, destination,
                                             [before  |-> state[destination].on,
                                              emitted |-> r.emit[1]])
                                 ELSE last_low
                          /\ high_sent' =
                                 IF /\ sent # <<>>
                                    /\ sent[1][2] = High
                                    /\ destination \notin DOMAIN high_sent
                                 THEN insert(high_sent, destination, presses)
                                 ELSE high_sent
    /\ UNCHANGED <<lines, pc, pp1_vars, pp2_vars, presses, fixed_vars, finalise_calls>>

\* the queue is empty: push_button returns its counts and the closure adds them
return_push_button ==
    /\ pc = "press"
    /\ part = 1
    /\ pulse_queue = <<>>
    /\ pp1_low_pulse_count' = pp1_low_pulse_count + low_pulse_count
    /\ pp1_high_pulse_count' = pp1_high_pulse_count + high_pulse_count
    /\ iteration' = iteration + 1
    /\ pc' = "process"
    /\ UNCHANGED <<lines, state, result, pp2_vars, press_vars, run_vars, fixed_vars,
                   finalise_calls, delivery_history>>

\* Ok(low_pulse_count * high_pulse_count), handed through calc_result
finish_processing_1 ==
    /\ pc = "process"
    /\ part = 1
    /\ iteration = NUM_ITERATIONS
    /\ result' = <<pp1_result(pp1_low_pulse_count, pp1_high_pulse_count)>>
    /\ pc' = "done"
    /\ UNCHANGED <<lines, state, iteration, pp1_low_pulse_count, pp1_high_pulse_count,
                   pp2_vars, press_vars, run_vars, fixed_vars, finalise_calls,
                   delivery_history>>

\* ------------------------------------------------------------------------
\* day20::perform_processing_2
\* ------------------------------------------------------------------------

\* one turn of the loop up to the call: num_presses += 1, then push_button with
\* (num_presses, interesting_nums) as the initial observation value.
\* horizon is how many presses the exploration follows.
call_push_button_2(horizon) ==
    /\ pc = "process"
    /\ part = 2
    /\ num_presses < horizon
    /\ num_presses' = num_presses + 1
    /\ observation_value' = <<num_presses + 1, interesting_nums>>
    /\ pulse_queue' = push_back(<<>>, <<button, Low, broadcaster>>)
    /\ low_pulse_count' = 0
    /\ high_pulse_count' = 0
    /\ pc' = "press"
    /\ enqueued' = <<(<<button, Low, broadcaster>>)>>
    /\ delivered' = <<>>
    /\ pulse_ids' = push_back(<<>>, 1)
    /\ seen' = {}
    /\ presses' = presses + 1
    /\ UNCHANGED <<lines, state, pp1_vars, interesting_nums, run_low, run_high,
                   fixed_vars, finalise_calls, delivery_history>>

\* a push_button that returns with pulses still queued
return_push_button_2_as_early ==
    /\ pc = "press"
    /\ part = 2
    /\ interesting_nums' = observation_value[2]
    /\ pc' = IF Cardinality(DOMAIN observation_value[2]) >= 4 THEN "found" ELSE "process"
    /\ UNCHANGED <<lines, state, pp1_vars, num_presses, press_vars, run_vars, fixed_vars,
                   finalise_calls, delivery_history>>

\* push_button returns: interesting_nums = numbers, and the loop breaks once it
\* holds four entries
return_push_button_2 ==
    /\ pc = "press"
    /\ part = 2
    /\ pulse_queue = <<>>
    /\ interesting_nums' = observation_value[2]
    /\ pc' = IF Cardinality(DOMAIN observation_value[2]) >= 4 THEN "found" ELSE "process"
    /\ UNCHANGED <<lines, state, pp1_vars, num_presses, press_vars, run_vars, fixed_vars,
                   finalise_calls, delivery_history>>

\* the four get(..).unwrap() and the lcm chain; an absent key panics
finish_processing_2 ==
    /\ pc = "found"
    /\ IF WATCHED \subseteq DOMAIN interesting_nums
       THEN /\ result' = <<lcm(lcm(lcm(interesting_nums[mp], interesting_nums[qt]),
                                    interesting_nums[qb]),
                                interesting_nums[ng])>>
            /\ pc' = "done"
       ELSE /\ pc' = "panic"
            /\ UNCHANGED result
    /\ UNCHANGED <<lines, state, iteration, pp1_low_pulse_count, pp1_high_pulse_count,
                   pp2_vars, press_vars, run_vars, fixed_vars, finalise_calls,
                   delivery_history>>

\* ------------------------------------------------------------------------
\* Specifications
\* ------------------------------------------------------------------------

\* every input file of the catalogue, followed for the first MaxPresses presses
Next ==
    \/ fold_line
    \/ call_finalise_state
    \/ call_push_button(MaxPresses)
    \/ deliver
    \/ return_push_button

Spec == Init /\ [][Next]_vars

\* part one of main on the reference files, followed to its result
InitPartA == InitWith(PartAFiles)

NextPartA ==
    \/ fold_line
    \/ call_finalise_state
    \/ call_push_button(NUM_ITERATIONS)
    \/ deliver
    \/ return_push_button
    \/ finish_processing_1

SpecPartA == InitPartA /\ [][NextPartA]_vars

\* part two of main: process with perform_processing_2
InitPartB == InitFor(PartBFiles, 2)

NextPartB ==
    \/ fold_line
    \/ call_finalise_state
    \/ call_push_button_2(MaxPressesB)
    \/ deliver
    \/ return_push_button_2
    \/ finish_processing_2

SpecPartB == InitPartB /\ [][NextPartB]_vars

\* ------------------------------------------------------------------------
\* A CellsBuilder driven through new_line, add_cell and build_cells
\* ------------------------------------------------------------------------

day20_vars ==
    <<lines, state, pc, pp1_vars, pp2_vars, press_vars, run_vars, part, finalise_calls,
      delivery_history>>

\* self.lines.push(Vec::new())
new_line ==
    /\ new_lines < MaxBuilderLines
    /\ new_lines' = new_lines + 1
    /\ builder_lines' = Append(builder_lines, <<>>)
    /\ UNCHANGED <<max_width, built, taken, builds, cells_added, day20_vars>>

\* add_cell on a builder with a line: push on the last line, raise max_width
add_cell ==
    /\ builder_lines # <<>>
    /\ cells_added < MaxCells
    /\ cells_added' = cells_added + 1
    /\ \E cell \in CellValues :
           LET current_line == Append(Last(builder_lines), cell)
           IN  /\ builder_lines' = [builder_lines EXCEPT ![Len(builder_lines)] = current_line]
               /\ max_width' = IF max_width > Len(current_line)
                               THEN max_width
                               ELSE Len(current_line)
    /\ UNCHANGED <<built, taken, builds, new_lines, day20_vars>>

\* build_cells: Err on no lines or width 0, else take the lines and fold them
build_cells ==
    /\ builds < MaxBuilds
    /\ builds' = builds + 1
    /\ \E default_value \in DefaultValues :
        /\ taken' = [lines |-> builder_lines, default_value |-> default_value]
        /\ IF builder_lines = <<>> \/ max_width = 0
           THEN /\ built' = <<[ok |-> FALSE]>>
                /\ UNCHANGED <<builder_lines, max_width>>
           ELSE /\ built' = <<[ok    |-> TRUE,
                                cells |-> build(builder_lines, max_width, default_value)]>>
                /\ builder_lines' = <<>>
                /\ UNCHANGED max_width
    /\ UNCHANGED <<new_lines, cells_added, day20_vars>>

InitCells == InitFor({<<>>}, 1)

NextCells ==
    \/ new_line
    \/ add_cell
    \/ build_cells

SpecCells == InitCells /\ [][NextCells]_vars

\* ------------------------------------------------------------------------
\* Vocabulary of the properties
\* ------------------------------------------------------------------------

IsModule(name, kind) == name \in DOMAIN state /\ state[name].kind = kind

\* this step pops one pulse off the queue
Delivers == pc = "press" /\ delivered' # delivered

\* the pulse the next delivery pops
Front == Head(pulse_queue)

\* the defined modules a module is wired to
Successors(st, m) == {st[m].outputs[i] : i \in 1..Len(st[m].outputs)} \cap DOMAIN st

RECURSIVE Closure(_, _)
Closure(st, S) ==
    LET more == S \cup UNION {Successors(st, m) : m \in S}
    IN  IF more = S THEN S ELSE Closure(st, more)

\* no module can send, directly or through others, to itself
Acyclic(st) == \A m \in DOMAIN st : m \notin Closure(st, Successors(st, m))

RECURSIVE WiringPaths(_, _)
RECURSIVE WiringPathsThrough(_, _)
\* the wiring paths of an acyclic graph that start with a pulse sent to m
WiringPaths(st, m) ==
    IF m \notin DOMAIN st THEN 1 ELSE 1 + WiringPathsThrough(st, st[m].outputs)

WiringPathsThrough(st, outputs) ==
    IF outputs = <<>>
    THEN 0
    ELSE WiringPaths(st, Head(outputs)) + WiringPathsThrough(st, Tail(outputs))

\* ------------------------------------------------------------------------
\* C1
\* ------------------------------------------------------------------------

\* C1: within one press pulses are delivered in strict FIFO order: the queue holds,
\* oldest first, exactly the pulses pushed and not yet popped, so every pulse a
\* delivery emits stands behind all pulses that were queued when it was popped,
\* and the pulses popped so far are the first pulses pushed, in push order.
FifoOrder ==
    pc = "press" =>
        /\ Len(pulse_ids) = Len(pulse_queue)
        /\ \A i \in 1..Len(pulse_queue) :
              /\ pulse_ids[i] = Len(delivered) + i
              /\ pulse_queue[i] = enqueued[pulse_ids[i]]
        /\ \A i \in 1..Len(delivered) : delivered[i] = enqueued[i]

\* a delivery has just emitted a pulse while a pulse of another sender, queued
\* before it, is still waiting at the front
FifoOrderWitness ==
    /\ pc = "press"
    /\ delivered # <<>>
    /\ Len(pulse_queue) >= 2
    /\ Last(pulse_queue)[1] = Last(delivered)[3]
    /\ Head(pulse_queue)[1] # Last(delivered)[3]
    /\ pulse_ids[1] < Len(enqueued) - 1

\* ------------------------------------------------------------------------
\* C2
\* ------------------------------------------------------------------------

\* C2 as stated: every press of every accepted graph terminates.  The loop's next
\* step is decided by the modules' state and the queue alone, so a press that
\* terminates is never twice in the same (state, queue) pair.
EveryPressTerminates == pc = "press" => <<state, pulse_queue>> \notin seen

\* C2 amended: a press on a graph whose wiring has no directed cycle terminates.
\* It pushes at most one pulse per wiring path that starts at the button, every
\* turn of the loop pops one of them, and the loop can always take its next turn:
\* deliver the front pulse, or return once the queue is empty.
AcyclicPressTerminates ==
    (pc = "press" /\ Acyclic(state)) =>
        /\ Len(enqueued) <= WiringPaths(state, broadcaster)
        /\ IF pulse_queue = <<>> THEN ENABLED return_push_button ELSE ENABLED deliver

\* a press on an acyclic graph has returned after a cascade through several modules
AcyclicPressTerminatesWitness ==
    /\ pc = "process"
    /\ iteration >= 1
    /\ Acyclic(state)
    /\ Len(delivered) >= 6
    /\ pulse_queue = <<>>

\* ------------------------------------------------------------------------
\* C3
\* ------------------------------------------------------------------------

\* C3: a Conjunction that receives a pulse from source S first sets memory[S] to the
\* pulse's level, leaving its other entries, and then sends one pulse to every
\* output: Low if and only if every value of its memory is now High, else High.
ConjunctionRule ==
    [][(Delivers /\ IsModule(Front[3], "Conjunction")) =>
          LET S      == Front[1]
              d      == Front[3]
              memory == state'[d].inputs
              level  == IF \A k \in DOMAIN memory : memory[k] = High THEN Low ELSE High
          IN  /\ DOMAIN memory = (DOMAIN state[d].inputs) \cup {S}
              /\ memory[S] = Front[2]
              /\ \A k \in (DOMAIN memory) \ {S} : memory[k] = state[d].inputs[k]
              /\ pulse_queue' = Tail(pulse_queue) \o
                     [i \in 1..Len(state[d].outputs) |-> <<d, level, state[d].outputs[i]>>]
      ]_vars

\* a Conjunction with two inputs has just seen both entries High and sent Low
ConjunctionRuleWitness ==
    /\ pc = "press"
    /\ delivered # <<>>
    /\ pulse_queue # <<>>
    /\ LET d == Last(delivered)[3]
       IN  /\ IsModule(d, "Conjunction")
           /\ Cardinality(DOMAIN state[d].inputs) = 2
           /\ \A k \in DOMAIN state[d].inputs : state[d].inputs[k] = High
           /\ Last(pulse_queue)[1] = d
           /\ Last(pulse_queue)[2] = Low

\* ------------------------------------------------------------------------
\* C4
\* ------------------------------------------------------------------------

\* C4: after finalise_state and before the first press, for every module M and every
\* output edge M -> N where N is a Conjunction, N's memory holds the entry M = Low.
ConjunctionsPrimedLow ==
    (pc = "process" /\ presses = 0) =>
        \A M \in DOMAIN state : \A i \in 1..Len(state[M].outputs) :
            LET N == state[M].outputs[i]
            IN  IsModule(N, "Conjunction") =>
                    /\ M \in DOMAIN state[N].inputs
                    /\ state[N].inputs[M] = Low

\* a finalised graph, not yet pressed, with a Conjunction fed by two modules
ConjunctionsPrimedLowWitness ==
    /\ pc = "process"
    /\ presses = 0
    /\ \E N \in DOMAIN state :
          /\ state[N].kind = "Conjunction"
          /\ Cardinality(DOMAIN state[N].inputs) = 2
          /\ \A k \in DOMAIN state[N].inputs : state[N].inputs[k] = Low

\* ------------------------------------------------------------------------
\* C5
\* ------------------------------------------------------------------------

\* C5: a FlipFlop that receives a Low pulse toggles its on flag and then enqueues one
\* pulse to every output, High if it is now on and Low if it is now off.
FlipFlopLowRule ==
    [][(Delivers /\ IsModule(Front[3], "FlipFlop") /\ Front[2] = Low) =>
          LET d     == Front[3]
              level == IF state'[d].on THEN High ELSE Low
          IN  /\ state'[d].on = ~state[d].on
              /\ pulse_queue' = Tail(pulse_queue) \o
                     [i \in 1..Len(state[d].outputs) |-> <<d, level, state[d].outputs[i]>>]
      ]_vars

\* a FlipFlop that was on has just received Low, is off and has sent Low
FlipFlopLowRuleWitness ==
    /\ pc = "press"
    /\ delivered # <<>>
    /\ pulse_queue # <<>>
    /\ LET d == Last(delivered)[3]
       IN  /\ IsModule(d, "FlipFlop")
           /\ Last(delivered)[2] = Low
           /\ ~state[d].on
           /\ Last(pulse_queue) = <<d, Low, Last(state[d].outputs)>>

\* ------------------------------------------------------------------------
\* C6
\* ------------------------------------------------------------------------

\* C6: a FlipFlop that receives a High pulse keeps its on flag and enqueues nothing:
\* the pulse is counted as one High, and neither the queue behind it, the flip-flop's
\* outputs nor any other module changes.
FlipFlopHighIgnored ==
    [][(Delivers /\ IsModule(Front[3], "FlipFlop") /\ Front[2] = High) =>
          LET d == Front[3]
          IN  /\ state'[d].on = state[d].on
              /\ state'[d].outputs = state[d].outputs
              /\ \A m \in (DOMAIN state) \ {d} : state'[m] = state[m]
              /\ pulse_queue' = Tail(pulse_queue)
              /\ enqueued' = enqueued
              /\ high_pulse_count' = high_pulse_count + 1
              /\ low_pulse_count' = low_pulse_count
      ]_vars

\* a FlipFlop that is on has just received High
FlipFlopHighIgnoredWitness ==
    /\ pc = "press"
    /\ delivered # <<>>
    /\ LET d == Last(delivered)[3]
       IN  /\ IsModule(d, "FlipFlop")
           /\ Last(delivered)[2] = High
           /\ state[d].on
           /\ high_pulse_count >= 1

\* ------------------------------------------------------------------------
\* C7
\* ------------------------------------------------------------------------

\* C7: the Broadcast module, on a pulse of any level, enqueues a pulse of the same
\* level to every one of its outputs, and that delivery changes no flip-flop's on
\* flag and no conjunction's memory.
BroadcastRule ==
    [][(Delivers /\ IsModule(Front[3], "Broadcast")) =>
          LET d == Front[3]
          IN  /\ pulse_queue' = Tail(pulse_queue) \o
                     [i \in 1..Len(state[d].outputs) |-> <<d, Front[2], state[d].outputs[i]>>]
              /\ DOMAIN state' = DOMAIN state
              /\ \A m \in DOMAIN state :
                    /\ state[m].kind = "FlipFlop" => state'[m].on = state[m].on
                    /\ state[m].kind = "Conjunction" => state'[m].inputs = state[m].inputs
      ]_vars

\* the Broadcast module has just received High and sent High to both its outputs
BroadcastRuleWitness ==
    /\ pc = "press"
    /\ delivered # <<>>
    /\ Len(pulse_queue) >= 2
    /\ LET d == Last(delivered)[3]
           n == Len(pulse_queue)
       IN  /\ IsModule(d, "Broadcast")
           /\ Last(delivered)[2] = High
           /\ Len(state[d].outputs) = 2
           /\ pulse_queue[n - 1] = <<d, High, state[d].outputs[1]>>
           /\ pulse_queue[n] = <<d, High, state[d].outputs[2]>>

\* ------------------------------------------------------------------------
\* C8
\* ------------------------------------------------------------------------

\* C8: a pulse whose destination is not a defined module is counted in the counter
\* of its level, emits nothing, changes no module and raises no error: the press
\* goes on with the next queued pulse.
SinkRule ==
    [][(Delivers /\ Front[3] \notin DOMAIN state) =>
          /\ low_pulse_count' = low_pulse_count + (IF Front[2] = Low THEN 1 ELSE 0)
          /\ high_pulse_count' = high_pulse_count + (IF Front[2] = High THEN 1 ELSE 0)
          /\ state' = state
          /\ pulse_queue' = Tail(pulse_queue)
          /\ enqueued' = enqueued
          /\ pc' = "press"
      ]_vars

\* a High pulse has just been delivered to a sink while another pulse is queued
SinkRuleWitness ==
    /\ pc = "press"
    /\ delivered # <<>>
    /\ Last(delivered)[3] \notin DOMAIN state
    /\ Last(delivered)[2] = High
    /\ high_pulse_count >= 1
    /\ pulse_queue # <<>>

\* ------------------------------------------------------------------------
\* C9
\* ------------------------------------------------------------------------

\* C9: conservation.  During a press the pulses pushed are those popped plus those
\* still queued, and low_pulse_count + high_pulse_count is the number popped; when
\* push_button has returned every pulse pushed has been popped; and the totals
\* summed by perform_processing_1 are the pulses popped across the run, by level.
Conservation ==
    /\ pc \in {"press", "process"} =>
          /\ enqueued = delivered \o pulse_queue
          /\ low_pulse_count + high_pulse_count = Len(delivered)
    /\ pc = "process" =>
          /\ pulse_queue = <<>>
          /\ delivered = enqueued
          /\ pp1_low_pulse_count = run_low
          /\ pp1_high_pulse_count = run_high
          /\ pp1_low_pulse_count + pp1_high_pulse_count = run_low + run_high

\* two presses have returned, the last one having delivered to modules and to a sink
ConservationWitness ==
    /\ pc = "process"
    /\ iteration >= 2
    /\ Len(delivered) >= 5
    /\ pp1_low_pulse_count + pp1_high_pulse_count > Len(delivered)
    /\ \E i \in 1..Len(delivered) : delivered[i][3] \notin DOMAIN state
    /\ \E i \in 1..Len(delivered) : delivered[i][2] = High

\* ------------------------------------------------------------------------
\* C10
\* ------------------------------------------------------------------------

\* C10: perform_processing_1 presses the button exactly 1000 times and returns the
\* sum of the presses' Low counts multiplied by the sum of their High counts; the
\* presses work on one evolving module state: between the return of a press and the
\* start of the next, and up to the result, no module changes.
PartAResult ==
    /\ [](pc = "done" =>
            /\ presses = 1000
            /\ iteration = 1000
            /\ result = <<run_low * run_high>>)
    /\ [][(pc = "process" \/ (pc = "press" /\ pc' = "process")) => state' = state]_vars

\* part one has returned its product, and the modules are not in their initial state
PartAResultWitness ==
    /\ pc = "done"
    /\ presses = NUM_ITERATIONS
    /\ result # <<>>
    /\ run_low > 0
    /\ run_high > 0
    /\ result[1] # run_low + run_high
    /\ \E m \in DOMAIN state : state[m].kind = "FlipFlop" /\ state[m].on

\* ------------------------------------------------------------------------
\* Part two: vocabulary
\* ------------------------------------------------------------------------

\* the defined modules that list name among their outputs
predecessors(st, name) ==
    {m \in DOMAIN st : \E i \in 1..Len(st[m].outputs) : st[m].outputs[i] = name}

\* rx has exactly one predecessor and it is a Conjunction
TargetWellFormed(st) ==
    \E g \in DOMAIN st : predecessors(st, rx) = {g} /\ st[g].kind = "Conjunction"

\* the predecessors of the conjunctions in front of rx
GatekeeperPredecessors(st) ==
    UNION {predecessors(st, g) : g \in {m \in predecessors(st, rx) : st[m].kind = "Conjunction"}}

\* the press-indices recorded so far: in the closure's accumulator during a press,
\* in interesting_nums between presses
Recorded == IF pc = "press" THEN observation_value[2] ELSE interesting_nums

\* ------------------------------------------------------------------------
\* C11
\* ------------------------------------------------------------------------

\* C11 as stated: the press-index recorded for a watched predecessor of the
\* conjunction in front of rx is the number of the earliest press during which that
\* predecessor sent a High pulse.
HighEmissionRecorded ==
    part = 2 =>
        \A n \in DOMAIN Recorded \cap GatekeeperPredecessors(state) :
            n \in DOMAIN high_sent /\ high_sent[n] = Recorded[n]

\* C11 amended: the names with a recorded press-index are exactly those of mp, qt,
\* qb, ng to which a Low pulse has been delivered, the index recorded for a name is
\* the 1-based number of the earliest press during which a Low pulse was delivered
\* to it, and a recorded index is never changed or removed by a later step.
LowDeliveryRecorded ==
    /\ [](part = 2 =>
            /\ DOMAIN Recorded = WATCHED \cap DOMAIN low_seen
            /\ \A n \in DOMAIN Recorded : Recorded[n] = low_seen[n])
    /\ [][part = 2 =>
            \A n \in DOMAIN Recorded :
                n \in DOMAIN Recorded' /\ Recorded'[n] = Recorded[n]]_vars

\* the third press has just delivered a Low to mp, whose index stays that of the
\* first press
LowDeliveryRecordedWitness ==
    /\ part = 2
    /\ pc = "press"
    /\ presses = 3
    /\ delivered # <<>>
    /\ Last(delivered) = <<broadcaster, Low, mp>>
    /\ mp \in DOMAIN Recorded
    /\ Recorded[mp] = 1

\* ------------------------------------------------------------------------
\* C12
\* ------------------------------------------------------------------------

\* every watched name has had a Low pulse delivered to it
AllWatchedSeen == WATCHED \subseteq DOMAIN low_seen

\* r is the least positive integer that every recorded press-index divides
IsLeastCommonMultiple(r) ==
    /\ r > 0
    /\ \A n \in WATCHED : r % low_seen[n] = 0
    /\ \A k \in 1..(r - 1) : \E n \in WATCHED : k % low_seen[n] # 0

\* C12: part two keeps pressing until every watched name has a recorded press-index:
\* between presses with a name still missing the next press is the only step, the
\* loop is left at the return of a press exactly when all four are recorded, which
\* is the return of the press that recorded the last of them, and the result is
\* the least common multiple of the four recorded press-indices.
PartBResult ==
    /\ [](part = 2 =>
            /\ pc # "panic"
            /\ (pc = "process" /\ finalise_calls = 1) =>
                   /\ ~AllWatchedSeen
                   /\ result = <<>>
                   /\ num_presses < MaxPressesB => ENABLED call_push_button_2(MaxPressesB)
            /\ pc \in {"found", "done"} =>
                   /\ AllWatchedSeen
                   /\ \E n \in WATCHED : low_seen[n] = num_presses
                   /\ \A n \in WATCHED : interesting_nums[n] = low_seen[n]
            /\ pc = "done" => result # <<>> /\ IsLeastCommonMultiple(result[1]))
    /\ [][(part = 2 /\ pc = "press" /\ pc' # "press") =>
               /\ pc' = (IF AllWatchedSeen THEN "found" ELSE "process")
               /\ num_presses' = num_presses]_vars

\* the four indices 1, 2, 3, 4 were recorded, the loop stopped after the fourth
\* press and returned 12
PartBResultWitness ==
    /\ part = 2
    /\ pc = "done"
    /\ num_presses = 4
    /\ {interesting_nums[n] : n \in WATCHED} = 1..4
    /\ result = <<12>>

\* ------------------------------------------------------------------------
\* C13
\* ------------------------------------------------------------------------

\* C13: when rx does not have exactly one predecessor, or that predecessor is not a
\* Conjunction, part two ends in an error: it presses the button not even once and
\* returns no number.
TargetPreconditionChecked ==
    (part = 2 /\ finalise_calls = 1 /\ ~TargetWellFormed(state)) =>
        /\ pc \notin {"press", "found", "done"}
        /\ num_presses = 0
        /\ result = <<>>

\* ------------------------------------------------------------------------
\* C14
\* ------------------------------------------------------------------------

\* the sources of the pulses a module can receive: the modules wired to it, and the
\* button for the module named broadcaster
senders(st, name) ==
    predecessors(st, name) \cup (IF name = broadcaster THEN {button} ELSE {})

\* C14: a run whose finalise_state leaves a Conjunction without the memory entry of
\* one of its predecessors ends in an error there: past finalise_state every
\* Conjunction holds an entry for each of its predecessors, so that no entry is
\* first created when a pulse arrives.
IncompleteMemoryRejected ==
    (finalise_calls = 1 /\ pc \notin {"parse", "error"}) =>
        \A c \in DOMAIN state :
            state[c].kind = "Conjunction" =>
                senders(state, c) \subseteq DOMAIN state[c].inputs

\* ------------------------------------------------------------------------
\* C15
\* ------------------------------------------------------------------------

\* line has a first word (its first maximal run of characters that are not
\* delimiters, from i to j), and it neither starts with % or & nor is broadcaster
Unclassifiable(line) ==
    \E i \in 1..Len(line) : \E j \in i..Len(line) :
        /\ \A k \in 1..(i - 1) : line[k] \in DELIMITERS
        /\ \A k \in i..j : line[k] \notin DELIMITERS
        /\ j = Len(line) \/ line[j + 1] \in DELIMITERS
        /\ line[i] \notin {"%", "&"}
        /\ SubSeq(line, i, j) # broadcaster

\* C15: folding a line whose first word is neither %-prefixed, &-prefixed nor exactly
\* broadcaster ends the run in an error, and folding any other line does not; after
\* the error no step follows: the lines behind it are not parsed, finalise_state is
\* not called, the button is not pressed and there is no result.
ParseErrorStops ==
    /\ [][(pc = "parse" /\ lines # <<>> /\ lines' # lines) =>
              /\ pc' = (IF Unclassifiable(Head(lines)) THEN "error" ELSE "parse")
              /\ Unclassifiable(Head(lines)) => state' = state]_vars
    /\ [](pc = "error" =>
            /\ finalise_calls = 0
            /\ presses = 0
            /\ result = <<>>)
    /\ [][pc # "error"]_vars

\* the run stopped in an error with modules already parsed and two lines still
\* unread
ParseErrorStopsWitness ==
    /\ pc = "error"
    /\ state # EmptyMap
    /\ Len(lines) = 2
    /\ finalise_calls = 0

\* ------------------------------------------------------------------------
\* C16
\* ------------------------------------------------------------------------

\* C16: determinism.  Whatever order the module map is iterated in, finalise_state
\* leaves the same modules, and whatever order a conjunction's memory is iterated
\* in, a delivery leaves the same modules and pushes the same pulses; the counters
\* do not depend on an order at all.  So every state of a run has one successor and
\* two runs on the same file agree on the counts and the module states after any
\* number of presses.
Determinism ==
    /\ [][(pc = "parse" /\ pc' = "process") =>
              \A order \in Orders(DOMAIN state) : state' = finalise_state(state, order)]_vars
    /\ [][(Delivers /\ contains_key(state, Front[3])) =>
              \A order \in iteration_orders(state[Front[3]], Front[1]) :
                  LET r == receive(state[Front[3]], Front[1], Front[2], order)
                  IN  /\ state' = [state EXCEPT ![Front[3]] = r.module]
                      /\ enqueued' = enqueued \o
                             (IF r.emit = <<>>
                              THEN <<>>
                              ELSE sent_pulses(Front[3], r.emit[1], r.module.outputs))]_vars
    /\ [][Delivers =>
              /\ low_pulse_count' = low_pulse_count + (IF Front[2] = Low THEN 1 ELSE 0)
              /\ high_pulse_count' = high_pulse_count + (IF Front[2] = High THEN 1 ELSE 0)]_vars

\* a conjunction with two predecessors, whose memory can be iterated in two orders,
\* has received a pulse that left its memory mixed
DeterminismWitness ==
    /\ pc = "press"
    /\ delivered # <<>>
    /\ IsModule(Last(delivered)[3], "Conjunction")
    /\ LET memory == state[Last(delivered)[3]].inputs
       IN  /\ Cardinality(DOMAIN memory) >= 2
           /\ \E p, q \in DOMAIN memory : memory[p] = High /\ memory[q] = Low

\* ------------------------------------------------------------------------
\* C17
\* ------------------------------------------------------------------------

\* C17: when a Low is delivered to a flip-flop whose previous Low delivery was the
\* last Low it received (High pulses may have come in between, in the same press or
\* in earlier ones), its on flag returns to the value it had before that previous
\* delivery, and the two deliveries emit opposite levels: High then Low if it was
\* off before the first, Low then High if it was on.
FlipFlopPairs ==
    [][(Delivers /\ IsModule(Front[3], "FlipFlop") /\ Front[2] = Low
            /\ Front[3] \in DOMAIN last_low) =>
           LET first == last_low[Front[3]]
               pushed == SubSeq(enqueued', Len(enqueued) + 1, Len(enqueued'))
           IN  /\ state'[Front[3]].on = first.before
               /\ first.emitted = (IF first.before THEN Low ELSE High)
               /\ Len(pushed) = Len(state[Front[3]].outputs)
               /\ \A i \in 1..Len(pushed) :
                      pushed[i][2] = (IF first.before THEN High ELSE Low)]_vars

\* a flip-flop that sends to itself, switched on by the Low of the first press and
\* sent its own High since, has received the Low of the second press, has answered
\* Low and is off again
FlipFlopPairsWitness ==
    /\ pc = "press"
    /\ delivered # <<>>
    /\ Last(delivered)[2] = Low
    /\ IsModule(Last(delivered)[3], "FlipFlop")
    /\ ~state[Last(delivered)[3]].on
    /\ state[Last(delivered)[3]].outputs # <<>>
    /\ Last(delivered)[3] \in DOMAIN last_low
    /\ last_low[Last(delivered)[3]].before
    /\ last_low[Last(delivered)[3]].emitted = Low
    /\ presses = 2
    /\ Last(delivered)[3] \in Successors(state, Last(delivered)[3])

\* ------------------------------------------------------------------------
\* The reference circuits: vocabulary
\* ------------------------------------------------------------------------

RECURSIVE Parsed(_, _)
\* the modules of a file whose lines all parse
Parsed(st, file_lines) ==
    IF file_lines = <<>>
    THEN st
    ELSE Parsed(parse_line(st, Head(file_lines)).state, Tail(file_lines))

\* kind and outputs of every module
Wiring(st) == [m \in DOMAIN st |-> <<st[m].kind, st[m].outputs>>]

\* the run has parsed and finalised exactly the modules of circuit
Runs(circuit) ==
    /\ finalise_calls = 1
    /\ Wiring(state) = Wiring(Parsed(EmptyMap, circuit))

\* every flip-flop is off and every conjunction remembers Low for each input, as
\* finalise_state leaves them
AtRest ==
    \A m \in DOMAIN state :
        /\ state[m].kind = "FlipFlop" => ~state[m].on
        /\ state[m].kind = "Conjunction" =>
               \A source \in DOMAIN state[m].inputs : state[m].inputs[source] = Low

\* the pulses of one level among those delivered in this press
DeliveredAt(level) == {i \in 1..Len(delivered) : delivered[i][2] = level}

\* ------------------------------------------------------------------------
\* C18
\* ------------------------------------------------------------------------

\* C18: on the reference circuit, the first press, from the state finalise_state
\* left, has delivered 8 Low and 4 High pulses when its queue is empty, the button's
\* pulse to the broadcaster included, and these are the counts push_button returns.
ReferencePress ==
    (Runs(ReferenceCircuit) /\ presses = 1) =>
        /\ (pc = "press" /\ pulse_queue = <<>>) =>
               /\ low_pulse_count = 8
               /\ high_pulse_count = 4
               /\ Cardinality(DeliveredAt(Low)) = 8
               /\ Cardinality(DeliveredAt(High)) = 4
               /\ delivered[1] = <<button, Low, broadcaster>>
        /\ pc = "process" =>
               /\ pp1_low_pulse_count = 8
               /\ pp1_high_pulse_count = 4

\* the first press on the reference circuit has emptied its queue after twelve
\* deliveries
ReferencePressWitness ==
    /\ Runs(ReferenceCircuit)
    /\ presses = 1
    /\ pc = "press"
    /\ pulse_queue = <<>>
    /\ Len(delivered) = 12

\* ------------------------------------------------------------------------
\* C19
\* ------------------------------------------------------------------------

\* C19: on the reference circuit every press ends with all flip-flops off and the
\* conjunction's memory Low, as before the first press, and adds 8 Low and 4 High
\* to the totals; after 1000 presses the result is 8000 * 4000 = 32000000.
ReferenceThousand ==
    Runs(ReferenceCircuit) =>
        /\ pc = "process" =>
               /\ AtRest
               /\ pp1_low_pulse_count = 8 * iteration
               /\ pp1_high_pulse_count = 4 * iteration
        /\ pc = "done" =>
               /\ iteration = 1000
               /\ run_low = 8000
               /\ run_high = 4000
               /\ result = <<32000000>>

\* the thousand presses on the reference circuit are done and the product returned
ReferenceThousandWitness ==
    /\ Runs(ReferenceCircuit)
    /\ pc = "done"
    /\ presses = 1000
    /\ AtRest
    /\ result = <<32000000>>

\* ------------------------------------------------------------------------
\* C20
\* ------------------------------------------------------------------------

\* C20: on the larger reference circuit the 1000 presses deliver 4250 Low and 2750
\* High pulses and the result is their product 11687500.
LargerReferenceThousand ==
    (Runs(LargerReferenceCircuit) /\ pc = "done") =>
        /\ iteration = 1000
        /\ pp1_low_pulse_count = 4250
        /\ pp1_high_pulse_count = 2750
        /\ run_low = 4250
        /\ run_high = 2750
        /\ result = <<11687500>>

\* the thousand presses on the larger reference circuit are done, the sink output
\* is still no module, and the product is returned
LargerReferenceThousandWitness ==
    /\ Runs(LargerReferenceCircuit)
    /\ pc = "done"
    /\ presses = 1000
    /\ ~contains_key(state, <<"o", "u", "t", "p", "u", "t">>)
    /\ result = <<11687500>>

\* ------------------------------------------------------------------------
\* C21
\* ------------------------------------------------------------------------

\* the length of the longest of the lines
Longest(given) ==
    IF given = <<>>
    THEN 0
    ELSE CHOOSE n \in {Len(given[y]) : y \in 1..Len(given)} :
             \A y \in 1..Len(given) : Len(given[y]) <= n

\* cells is the grid of the lines given: as wide as the longest line, as high as
\* the number of lines, get(x, y) the x-th cell of line y, or the default value
\* past the end of a shorter line
IsGridOf(cells, given, default_value) ==
    /\ cells.side_lengths = <<Longest(given), Len(given)>>
    /\ \A y \in 0..(Len(given) - 1) : \A x \in 0..(Longest(given) - 1) :
           cells_get(cells, x, y) =
               <<IF x < Len(given[y + 1]) THEN given[y + 1][x + 1] ELSE default_value>>

\* C21: whenever build_cells returns a grid, it is the grid of the lines the builder
\* held: side_lengths are (length of the longest line, number of lines), get(x, y)
\* is the x-th cell added to line y, and the positions of a shorter line past its
\* last cell hold the default value.
BuildCellsGrid ==
    (built # <<>> /\ built[1].ok) =>
        IsGridOf(built[1].cells, taken.lines, taken.default_value)

\* C21 on a builder whose build_cells is called for the first time
FirstBuildCellsGrid ==
    (builds = 1 /\ built # <<>> /\ built[1].ok) =>
        IsGridOf(built[1].cells, taken.lines, taken.default_value)

\* a first build of two lines of different lengths, the shorter one padded
FirstBuildCellsGridWitness ==
    /\ builds = 1
    /\ built # <<>>
    /\ built[1].ok
    /\ Len(taken.lines) = 2
    /\ Len(taken.lines[1]) = 2
    /\ Len(taken.lines[2]) = 1
    /\ taken.default_value = "?"
    /\ built[1].cells.contents[4] = "?"

\* ------------------------------------------------------------------------
\* C22
\* ------------------------------------------------------------------------

RECURSIVE Threaded(_, _)
\* the closure of part two called once for each of the pulses, first to last, each
\* call given the value the one before returned
Threaded(value, pulses) ==
    IF pulses = <<>>
    THEN value
    ELSE Threaded(observe_2(value, Head(pulses)[2], Head(pulses)[3]), Tail(pulses))

\* C22: the observer is called exactly once for every pulse popped in a press, pulses
\* to undefined modules included, and each call is handed the value the previous
\* one returned: at every point of a press of part two the observation value is the
\* closure threaded, from the initial value, through the pulses delivered so far in
\* delivery order, and every delivery counts its pulse and calls the closure on it
\* in one step.
ObserverThreaded ==
    /\ []((part = 2 /\ pc = "press") =>
            observation_value = Threaded(<<num_presses, interesting_nums>>, delivered))
    /\ [][(part = 2 /\ Delivers) =>
              /\ low_pulse_count' + high_pulse_count' = low_pulse_count + high_pulse_count + 1
              /\ observation_value' = observe_2(observation_value, Front[2], Front[3])]_vars

\* in the second press a Low has just been delivered to qt, which is no module, and
\* the closure has recorded it
ObserverThreadedWitness ==
    /\ part = 2
    /\ pc = "press"
    /\ presses = 2
    /\ delivered # <<>>
    /\ Last(delivered)[2] = Low
    /\ Last(delivered)[3] = qt
    /\ ~contains_key(state, qt)
    /\ observation_value[2][qt] = 2
    /\ mp \in DOMAIN interesting_nums

\* ------------------------------------------------------------------------
\* C23
\* ------------------------------------------------------------------------

\* C23: finalise_state runs once in a run that parses: it is called when no line is
\* left to parse and no button has been pressed, it is never called a second time,
\* and a button is pressed or a pulse queued only after it has been called.
FinaliseOnce ==
    /\ [](/\ finalise_calls <= 1
          /\ pc \notin {"parse", "error"} => finalise_calls = 1 /\ lines = <<>>
          /\ (presses > 0 \/ pulse_queue # <<>> \/ enqueued # <<>>) => finalise_calls = 1)
    /\ [][finalise_calls' # finalise_calls =>
              /\ finalise_calls = 0
              /\ lines = <<>>
              /\ presses = 0
              /\ pulse_queue = <<>>
              /\ state' \in {finalise_state(state, order) : order \in Orders(DOMAIN state)}]_vars

\* finalise_state has run once on four parsed modules, one of them a conjunction
\* with a primed memory, and the first press is under way
FinaliseOnceWitness ==
    /\ finalise_calls = 1
    /\ pc = "press"
    /\ presses = 1
    /\ Cardinality(DOMAIN state) = 4
    /\ \E c \in DOMAIN state :
           state[c].kind = "Conjunction" /\ state[c].inputs # EmptyMap

\* ------------------------------------------------------------------------
\* C24
\* ------------------------------------------------------------------------

\* C24: a delivery to destination D leaves every module other than D as it was, and
\* leaves the kind and the output list of every module, D included, as they were;
\* no module is added or removed.  A step after finalise_state that delivers no
\* pulse (the start of a press, its return, the final result) changes no module.
DeliveryFrame ==
    /\ [][Delivers =>
              /\ DOMAIN state' = DOMAIN state
              /\ \A m \in DOMAIN state :
                     /\ m # Front[3] => state'[m] = state[m]
                     /\ state'[m].outputs = state[m].outputs
                     /\ state'[m].kind = state[m].kind]_vars
    /\ [][(finalise_calls = 1 /\ ~Delivers) => state' = state]_vars

\* a delivery has just switched a flip-flop on while another flip-flop, switched on
\* earlier in the press, stays on
DeliveryFrameWitness ==
    /\ pc = "press"
    /\ delivered # <<>>
    /\ IsModule(Last(delivered)[3], "FlipFlop")
    /\ Last(delivered)[2] = Low
    /\ state[Last(delivered)[3]].on
    /\ \E m \in DOMAIN state \ {Last(delivered)[3]} :
           state[m].kind = "FlipFlop" /\ state[m].on

\* ------------------------------------------------------------------------
\* C25
\* ------------------------------------------------------------------------

\* C25: push_button returns only with its queue drained, every pulse pushed having
\* been popped, and only then are its observations taken over and the stop
\* condition of part two evaluated: interesting_nums changes at a return only, and
\* the loop is left with an empty queue, even when the fourth index was recorded
\* with pulses still pending.
DrainedBeforeConsumed ==
    /\ [][(part = 2 /\ pc = "press" /\ pc' # "press") =>
              /\ pulse_queue = <<>>
              /\ Len(delivered) = Len(enqueued)
              /\ low_pulse_count + high_pulse_count = Len(enqueued)
              /\ interesting_nums' = observation_value[2]]_vars
    /\ [][(part = 2 /\ interesting_nums' # interesting_nums) =>
              (pc = "press" /\ pc' # "press")]_vars
    /\ []((part = 2 /\ pc \in {"process", "found", "done"}) => pulse_queue = <<>>)

\* the press has recorded its fourth index while pulses are still queued, and goes
\* on
DrainedBeforeConsumedWitness ==
    /\ part = 2
    /\ pc = "press"
    /\ pulse_queue # <<>>
    /\ WATCHED \subseteq DOMAIN observation_value[2]
    /\ ~(WATCHED \subseteq DOMAIN interesting_nums)

\* ------------------------------------------------------------------------
\* C26
\* ------------------------------------------------------------------------

\* C26: a press starts from an empty queue holding the one pulse (button, Low,
\* broadcaster), which is the first delivered; every other pulse pushed in the press
\* has as its source a defined module to which an earlier pulse of the same press
\* was delivered.  So a finished press has counted at least one Low, and where no
\* module is named broadcaster it has counted (1, 0), delivered the button's pulse
\* only, and no step of it changes a module.
SingleInjection ==
    /\ [](pc = "press" =>
            /\ enqueued # <<>>
            /\ enqueued[1] = <<button, Low, broadcaster>>
            /\ delivered # <<>> => delivered[1] = <<button, Low, broadcaster>>
            /\ \A i \in 2..Len(enqueued) :
                   /\ enqueued[i][1] \in DOMAIN state
                   /\ \E j \in 1..Len(delivered) :
                          j < i /\ delivered[j][3] = enqueued[i][1]
            /\ pulse_queue = <<>> =>
                   /\ low_pulse_count >= 1
                   /\ ~contains_key(state, broadcaster) =>
                          /\ low_pulse_count = 1
                          /\ high_pulse_count = 0
                          /\ delivered = <<(<<button, Low, broadcaster>>)>>)
    /\ [][(pc = "process" /\ pc' = "press") =>
              /\ pulse_queue = <<>>
              /\ pulse_queue' = <<(<<button, Low, broadcaster>>)>>
              /\ low_pulse_count' = 0
              /\ high_pulse_count' = 0]_vars
    /\ [][(pc = "press" /\ ~contains_key(state, broadcaster)) => state' = state]_vars

\* a press on modules none of which is the broadcaster has drained its queue
SingleInjectionWitness ==
    /\ pc = "press"
    /\ pulse_queue = <<>>
    /\ state # EmptyMap
    /\ ~contains_key(state, broadcaster)
    /\ low_pulse_count = 1
    /\ high_pulse_count = 0

\* ------------------------------------------------------------------------
\* C27
\* ------------------------------------------------------------------------

\* C27: parse_line keeps the output names in the order of the line, and the pulses
\* a module sends for one pulse received are pushed together at the back of the
\* queue, one for each entry of its output list in the list's order, all from that
\* module and of one level; since pulses are popped in the order pushed, they are
\* delivered in that left-to-right order.
OutputOrder ==
    /\ [][(pc = "parse" /\ lines # <<>> /\ Head(lines) = LineBroadcaster /\ lines' # lines) =>
              state'[broadcaster].outputs = << <<"a">>, <<"b">> >>]_vars
    /\ [][(Delivers /\ contains_key(state, Front[3])) =>
              LET pushed == SubSeq(enqueued', Len(enqueued) + 1, Len(enqueued'))
                  outputs == state[Front[3]].outputs
              IN  /\ pulse_queue' = Tail(pulse_queue) \o pushed
                  /\ \/ pushed = <<>>
                     \/ /\ Len(pushed) = Len(outputs)
                        /\ \A i \in 1..Len(pushed) :
                               /\ pushed[i][1] = Front[3]
                               /\ pushed[i][2] = pushed[1][2]
                               /\ pushed[i][3] = outputs[i]]_vars
    /\ [](pc = "press" =>
            /\ Len(delivered) <= Len(enqueued)
            /\ delivered = SubSeq(enqueued, 1, Len(delivered)))

\* the pulses of 'broadcaster -> a, b' have been delivered, to a and then to b
OutputOrderWitness ==
    /\ pc = "press"
    /\ Len(delivered) >= 3
    /\ state[broadcaster].outputs = << <<"a">>, <<"b">> >>
    /\ delivered[2] = <<broadcaster, Low, <<"a">> >>
    /\ delivered[3] = <<broadcaster, Low, <<"b">> >>

\* ------------------------------------------------------------------------
\* C28
\* ------------------------------------------------------------------------

\* C28: past finalise_state, in every state any number of presses reaches, the keys
\* of each Conjunction's memory are exactly the modules that list it among their
\* outputs.
MemoryKeysArePredecessors ==
    (finalise_calls = 1 /\ pc \notin {"parse", "error"}) =>
        \A c \in DOMAIN state :
            state[c].kind = "Conjunction" =>
                DOMAIN state[c].inputs = predecessors(state, c)

\* C28 for the Conjunctions the button does not send to
MemoryKeysArePredecessorsButBroadcaster ==
    (finalise_calls = 1 /\ pc \notin {"parse", "error"}) =>
        \A c \in DOMAIN state \ {broadcaster} :
            state[c].kind = "Conjunction" =>
                DOMAIN state[c].inputs = predecessors(state, c)

\* ------------------------------------------------------------------------
\* C29
\* ------------------------------------------------------------------------

\* the orders in which day20b can iterate the memory of the module the front pulse
\* goes to
FrontOrders ==
    IF IsModule(Front[3], "Conjunction")
    THEN Orders((DOMAIN state[Front[3]].inputs) \cup {Front[1]})
    ELSE {<<>>}

\* C29: the observer does not influence propagation.  A press of day20's
\* push_button, with the closure of part two observing, starts with the queue and
\* counters day20b's push_button starts with; each of its deliveries pops the pulse
\* day20b pops and leaves the modules, the queue and the two counters as a turn of
\* day20b's loop leaves them; and it returns, as day20b does, when the queue is
\* empty.  Hence the same delivery sequence, counts and module state.
ObserverFree ==
    /\ [][(pc = "process" /\ pc' = "press") =>
              /\ state' = state
              /\ pulse_queue' = day20b_start.queue
              /\ low_pulse_count' = day20b_start.low
              /\ high_pulse_count' = day20b_start.high]_vars
    /\ [][Delivers =>
              /\ delivered' = Append(delivered, Head(pulse_queue))
              /\ \A order \in FrontOrders :
                     LET turn == day20b_turn(state, pulse_queue, low_pulse_count,
                                             high_pulse_count, order)
                     IN  /\ state' = turn.state
                         /\ pulse_queue' = turn.queue
                         /\ low_pulse_count' = turn.low
                         /\ high_pulse_count' = turn.high]_vars
    /\ [][(pc = "press" /\ pc' # "press") =>
              /\ pulse_queue = <<>>
              /\ state' = state
              /\ low_pulse_count' = low_pulse_count
              /\ high_pulse_count' = high_pulse_count]_vars

\* the closure of part two has recorded an index in this press, and pulses have
\* since been delivered to a conjunction and sent on by it
ObserverFreeWitness ==
    /\ part = 2
    /\ pc = "press"
    /\ observation_value[2] # interesting_nums
    /\ delivered # <<>>
    /\ IsModule(Last(delivered)[3], "Conjunction")
    /\ pulse_queue # <<>>
    /\ Last(pulse_queue)[1] = Last(delivered)[3]

\* ------------------------------------------------------------------------
\* C30
\* ------------------------------------------------------------------------

\* the levels a sequence of pulses carries
LevelsOf(pulses) == {pulses[i][2] : i \in 1..Len(pulses)}

\* C30: NotSeen is never the level of a pulse pushed, queued or delivered, and never
\* a value of a Conjunction's memory; it is found only in the inputs records of
\* FlipFlop and Broadcast modules, and what such a module sends and how it changes
\* is the same whatever that record holds.
NotSeenConfined ==
    /\ [](/\ LevelsOf(enqueued) \cup LevelsOf(pulse_queue) \cup LevelsOf(delivered)
                 \subseteq {High, Low}
          /\ \A m \in DOMAIN state :
                 state[m].kind = "Conjunction" =>
                     \A source \in DOMAIN state[m].inputs :
                         state[m].inputs[source] \in {High, Low})
    /\ [][(Delivers /\ contains_key(state, Front[3])
              /\ state[Front[3]].kind \in {"FlipFlop", "Broadcast"}) =>
              LET blank == [state[Front[3]] EXCEPT !.inputs = EmptyMap]
                  r     == receive(blank, Front[1], Front[2], <<>>)
                  sent  == IF r.emit = <<>>
                           THEN <<>>
                           ELSE sent_pulses(Front[3], r.emit[1], r.module.outputs)
              IN  /\ enqueued' = enqueued \o sent
                  /\ state[Front[3]].kind = "FlipFlop" =>
                         state'[Front[3]].on = r.module.on]_vars

\* in a press, a flip-flop or the broadcaster still holds NotSeen for one of its
\* inputs while a conjunction remembers a High
NotSeenConfinedWitness ==
    /\ pc = "press"
    /\ delivered # <<>>
    /\ \E f \in DOMAIN state :
           /\ state[f].kind \in {"FlipFlop", "Broadcast"}
           /\ \E source \in DOMAIN state[f].inputs : state[f].inputs[source] = NotSeen
    /\ \E c \in DOMAIN state :
           /\ state[c].kind = "Conjunction"
           /\ \E source \in DOMAIN state[c].inputs : state[c].inputs[source] = High

====
